---- MODULE Spec2Model ----
(***************************************************************************)
(* Model of fedi-quote-me: the MastodonQuotabilityAPI object               *)
(* (mastodon_quotability/api.py), the MastodonAuthManager credential store *)
(* (mastodon_quotability/auth.py), the command-line tool                   *)
(* (cli/mastodon_quotability_cli.py) and the Flask backend                 *)
(* (webapp/backend/app.py).                                                *)
(*                                                                         *)
(* Strings whose characters matter (version strings, instance URLs) are    *)
(* sequences of one-character or one-token strings.  The remote Mastodon   *)
(* server is the environment: each request is answered by a               *)
(* nondeterministic choice among the answers a server can give.            *)
(***************************************************************************)
EXTENDS Integers, Sequences, FiniteSets, TLC

\* ------------------------------------------------------------------ bounds
\* Largest number of statuses the modelled account holds on the server.
MaxPosts == 3
\* Largest number of statuses of the account in SpecHonest: three pages.
MaxHonestPosts == 81
\* Longest version string drawn in SpecVersion.
MaxVersionLen == 5

\* ------------------------------------------------------------- Python values
\* Optional values: None is the empty tuple, a present value x is <<x>>.
None == <<>>
Some(x) == <<x>>
IsNone(o) == o = <<>>
Get(o) == o[1]

\* api.py:112, the page size asked of account_statuses.
PageLimit == 40

Min(a, b) == IF a < b THEN a ELSE b

Last(s) == s[Len(s)]

\* ------------------------------------------------------------ version strings
Digits == {"0", "1", "2", "3", "4", "5", "6", "7", "8", "9"}

DigitVal(c) ==
    CASE c = "0" -> 0 [] c = "1" -> 1 [] c = "2" -> 2 [] c = "3" -> 3 [] c = "4" -> 4
      [] c = "5" -> 5 [] c = "6" -> 6 [] c = "7" -> 7 [] c = "8" -> 8 [] c = "9" -> 9

\* The characters version strings are drawn from in SpecVersion.
VersionChars == {"1", "4", "5", ".", "+", "-", "g"}

\* 'unknown', the default of instance.get('version', 'unknown') and the
\* version reported when the check raises.
Unknown == <<"u", "n", "k", "n", "o", "w", "n">>

\* Python's str.split(sep) for a one-character separator.
RECURSIVE Split(_, _)
Split(s, sep) ==
    IF \A k \in 1..Len(s) : s[k] # sep
    THEN <<s>>
    ELSE LET k == CHOOSE j \in 1..Len(s) : s[j] = sep /\ \A h \in 1..(j - 1) : s[h] # sep
         IN  <<SubSeq(s, 1, k - 1)>> \o Split(SubSeq(s, k + 1, Len(s)), sep)

RECURSIVE DigitsValue(_)
DigitsValue(s) ==
    IF s = <<>> THEN 0 ELSE 10 * DigitsValue(SubSeq(s, 1, Len(s) - 1)) + DigitVal(Last(s))

\* Python's int(str) on the characters modelled: an optional sign followed by
\* one or more decimal digits; anything else raises ValueError.
PyInt(s) ==
    LET signed == s # <<>> /\ s[1] \in {"+", "-"}
        digs   == IF signed THEN SubSeq(s, 2, Len(s)) ELSE s
    IN  IF digs # <<>> /\ \A k \in 1..Len(digs) : digs[k] \in Digits
        THEN [raises |-> FALSE,
              val |-> IF signed /\ s[1] = "-" THEN 0 - DigitsValue(digs) ELSE DigitsValue(digs)]
        ELSE [raises |-> TRUE, val |-> 0]

\* ------------------------------------------------------------------- state
VARIABLES
    \* the remote server
    serverPosts,      \* the account's statuses, newest first
    instanceVersion,  \* the version string the instance reports, or None (no 'version' key)
    \* MastodonQuotabilityAPI fields
    account,          \* self.account
    cached_posts,     \* self._cached_posts
    cache_origin,     \* history: how the fetch that filled the cache ended
    instance_info,    \* self._instance_info
    version_checked,  \* self._version_checked
    \* the call in progress on the API object
    pc,               \* "idle", "fetching" (loop of get_all_posts), "updating" (loop of the bulk update)
    call,             \* the public method called last and its arguments
    caller,           \* who runs the get_all_posts loop: "get_all_posts" or "enable"
    all_posts,        \* local of get_all_posts
    max_id,           \* local of get_all_posts
    posts,            \* local of enable_quotability_for_all_posts
    results,          \* local of enable_quotability_for_all_posts
    i,                \* loop index of enable_quotability_for_all_posts
    outcome,          \* how the last call ended: "running", "returned" or the exception raised
    ret_posts,        \* the list the last get_all_posts returned
    ret_bool,         \* the flag the last update_post_quotability / set_default_quote_policy returned
    ret_support,      \* the pair check_quote_policy_support returned in the last call
    requests,         \* remote requests issued by the call in progress or last ended, with their answers
    \* the credential directory ~/.mastodon_quotability
    files,            \* the credential files that exist
    lastAuth,         \* the MastodonAuthManager method called last, its manager and how it ended
    \* webapp/backend/app.py
    auth_managers,    \* session id -> auth manager
    auth_states,      \* state token -> session id
    http,             \* the request handled last and its response
    \* the command-line process
    cliPc,            \* where main() stands
    cliArgs,          \* the parsed arguments
    cliEvent,         \* what ended the command: "none", "KeyboardInterrupt", "Exception", "declined", "usage"
    cliExit           \* the exit status, -1 while running

apiVars == <<serverPosts, instanceVersion, account, cached_posts, cache_origin, instance_info,
             version_checked, pc, call, caller, all_posts, max_id, posts, results,
             i, outcome, ret_posts, ret_bool, ret_support, requests>>

authVars == <<files, lastAuth>>

webVars == <<auth_managers, auth_states, http>>

cliVars == <<cliPc, cliArgs, cliEvent, cliExit>>

vars == <<apiVars, authVars, webVars, cliVars>>

\* ------------------------------------------------- check_quote_policy_support
\* api.py:58, the version test.
SupportsQuotePolicies(major, minor) == major > 4 \/ (major = 4 /\ minor >= 5)

\* api.py:52-64: the parse of the version string.  raises: an int() failed.
ParseSupport(version) ==
    LET version_parts == Split(version, ".")
    IN  IF Len(version_parts) >= 2
        THEN LET major == PyInt(version_parts[1])
                 minor == PyInt(Split(Split(version_parts[2], "+")[1], "-")[1])
             IN  IF major.raises \/ minor.raises
                 THEN [raises |-> TRUE, supported |-> FALSE]
                 ELSE [raises |-> FALSE,
                       supported |-> SupportsQuotePolicies(major.val, minor.val)]
        ELSE [raises |-> FALSE, supported |-> FALSE]

\* What client.instance() can answer: an exception, or the instance's
\* information, whose 'version' key is present or not.
InstanceAnswers ==
    {[raises |-> TRUE, info |-> [version |-> None]],
     [raises |-> FALSE, info |-> [version |-> instanceVersion]]}

\* api.py:37-68 with get_instance_info (api.py:26-35) inlined: the pair
\* returned and the object's fields afterwards, for the answer `ans` that
\* client.instance() gives if it is asked.
CheckSupport(checked, cachedInfo, ans) ==
    IF checked
    THEN [supported |-> TRUE, version |-> <<>>,
          version_checked |-> TRUE, instance_info |-> cachedInfo]
    ELSE IF IsNone(cachedInfo) /\ ans.raises
    THEN [supported |-> FALSE, version |-> Unknown,
          version_checked |-> FALSE, instance_info |-> cachedInfo]
    ELSE LET instance == IF IsNone(cachedInfo) THEN ans.info ELSE Get(cachedInfo)
             version  == IF IsNone(instance.version) THEN Unknown ELSE Get(instance.version)
             parsed   == ParseSupport(version)
         IN  IF parsed.raises
             THEN [supported |-> FALSE, version |-> Unknown,
                   version_checked |-> FALSE, instance_info |-> Some(instance)]
             ELSE [supported |-> parsed.supported, version |-> version,
                   version_checked |-> parsed.supported, instance_info |-> Some(instance)]

\* ------------------------------------------------------------- the server
\* The statuses of the account older than the cursor, newest first.
Older(cursor) ==
    IF IsNone(cursor) THEN serverPosts
    ELSE SelectSeq(serverPosts, LAMBDA p : p.id < Get(cursor))

\* What client.account_statuses(account_id, max_id, limit=40) can answer: an
\* exception, or a page of at most `limit` of the statuses older than max_id
\* (a server may answer with fewer than it holds, or with none).
StatusAnswers(cursor) ==
    {[raises |-> TRUE, page |-> <<>>]} \cup
    {[raises |-> FALSE, page |-> SubSeq(Older(cursor), 1, k)] :
        k \in 0..Min(PageLimit, Len(Older(cursor)))}

\* The answer of a server that does as the Mastodon API documents: the
\* newest `limit` statuses strictly older than max_id, all of them if fewer.
HonestAnswer(cursor) ==
    [raises |-> FALSE,
     page |-> SubSeq(Older(cursor), 1, Min(PageLimit, Len(Older(cursor))))]

\* --------------------------------------------------------------- policies
\* Mutant of valid_policies: any value passes the check.
valid_policies_Lax == {"public", "followers", "nobody", "bogus"}

\* api.py:158 and api.py:321.
valid_policies == {"public", "followers", "nobody"}

\* The policy values callers pass: the three of the API and one that is not.
Policies == valid_policies \cup {"bogus"}

NoCall == [op |-> "none", policy |-> "", use_cache |-> TRUE, callback |-> FALSE,
           status_id |-> 0]

NoResults == [total |-> 0, success |-> 0, failed |-> 0]

\* One remote request and its answer.
Request(op, arg, policy, ok, page) ==
    [op |-> op, arg |-> arg, policy |-> policy, ok |-> ok, page |-> page]

\* ------------------------------------------------------------ call frames
\* The locals of a method exist during its call only, and a returned value
\* until the next call: each call starts from these.
NoFetchLocals == all_posts' = <<>> /\ max_id' = None /\ caller' = "get_all_posts"

NoUpdateLocals == posts' = <<>> /\ results' = NoResults /\ i' = 0

NoSupport == [supported |-> FALSE, version |-> <<>>]

NoReturns == ret_posts' = <<>> /\ ret_bool' = FALSE /\ ret_support' = NoSupport

\* ------------------------------------------------------------ get_all_posts
\* Mutant of FetchLoopContinues: the loop asks again after an exception.
FetchLoopContinues_AfterException(ans, cbRaises) ==
    ans.raises \/ (ans.page # <<>> /\ ~cbRaises)

\* api.py:115-116 and 129-131: the loop goes on to the next page only after a
\* non-empty page whose handling raised nothing.
FetchLoopContinues(ans, cbRaises) == ~ans.raises /\ ans.page # <<>> /\ ~cbRaises

\* Mutant of NextCursor: the cursor is the id of the first status of the page.
NextCursor_First(cursor, page) == IF page = <<>> THEN cursor ELSE Some(page[1].id)

\* api.py:124: the cursor of the next request, the id of the last status of
\* the page; the statement is reached past a non-empty page only, and the
\* cursor is otherwise left as it is.
NextCursor(cursor, page) == IF page = <<>> THEN cursor ELSE Some(Last(page).id)

\* api.py:207-211.
NewResults(ps) == [total |-> Len(ps), success |-> 0, failed |-> 0]

\* api.py:133-136, then the caller's next statement: get_all_posts returns to
\* its own caller, or to enable_quotability_for_all_posts at api.py:206.
FetchReturn(fetched) ==
    /\ cached_posts' = Some(fetched)
    /\ NoFetchLocals
    /\ IF caller = "enable"
       THEN /\ posts' = fetched
            /\ results' = NewResults(fetched)
            /\ i' = 0
            /\ pc' = "updating"
            /\ UNCHANGED <<outcome, ret_posts>>
       ELSE /\ pc' = "idle"
            /\ outcome' = "returned"
            /\ ret_posts' = fetched
            /\ UNCHANGED <<posts, results, i>>

\* Mutant of CacheHit: a cached list is returned whatever use_cache is.
CacheHit_Always(use_cache, cached) == ~IsNone(cached)

\* api.py:95: the test that serves the call from the cache.
CacheHit(use_cache, cached) == use_cache /\ ~IsNone(cached)

\* api.py:94-105: get_all_posts up to the first page request.
GetAllPosts(use_cache, callback) ==
    /\ pc = "idle"
    /\ call' = [NoCall EXCEPT !.op = "get_all_posts", !.use_cache = use_cache,
                              !.callback = callback]
    /\ requests' = <<>>
    /\ NoUpdateLocals
    /\ ret_bool' = FALSE /\ ret_support' = NoSupport
    /\ IF CacheHit(use_cache, cached_posts)
       THEN /\ outcome' = "returned"
            /\ ret_posts' = Get(cached_posts)
            /\ NoFetchLocals
            /\ UNCHANGED pc
       ELSE /\ outcome' = "running"
            /\ pc' = "fetching"
            /\ caller' = "get_all_posts"
            /\ all_posts' = <<>>
            /\ max_id' = None
            /\ ret_posts' = <<>>
    /\ UNCHANGED <<serverPosts, instanceVersion, account, cached_posts, cache_origin, instance_info,
                   version_checked>>

\* Mutant of Fetched: an exception discards the pages fetched before it.
Fetched_DropOnError(ans, sofar) == IF ans.raises THEN <<>> ELSE sofar \o ans.page

\* api.py:109-118 and 129-131: all_posts after a page request; an exception
\* leaves the posts of the earlier pages in it.
Fetched(ans, sofar) == IF ans.raises THEN sofar ELSE sofar \o ans.page

\* api.py:115-116, 120-121, 129-131: what ended the loop.
LoopEnd(ans, cbRaises) ==
    IF ans.raises THEN "exception" ELSE IF cbRaises THEN "callback" ELSE "empty_page"

\* api.py:106-136: one iteration of the pagination loop, and the return when
\* the loop ends, for the answer `ans` of the server and a progress callback
\* that raises (cbRaises) or not.
FetchPageWith(ans, cbRaises) ==
    /\ pc = "fetching"
    /\ cbRaises => (call.callback /\ caller = "get_all_posts"
                    /\ ~ans.raises /\ ans.page # <<>>)
    /\ requests' = Append(requests,
                          Request("account_statuses", max_id, "", ~ans.raises, ans.page))
    /\ cache_origin' = IF FetchLoopContinues(ans, cbRaises) THEN cache_origin
                       ELSE LoopEnd(ans, cbRaises)
    /\ LET fetched == Fetched(ans, all_posts)
       IN  IF FetchLoopContinues(ans, cbRaises)
           THEN /\ all_posts' = fetched
                /\ max_id' = NextCursor(max_id, ans.page)
                /\ UNCHANGED <<cached_posts, pc, caller, posts, results, i, outcome,
                               ret_posts>>
           ELSE FetchReturn(fetched)
    /\ UNCHANGED <<serverPosts, instanceVersion, account, instance_info, version_checked,
                   call, ret_bool, ret_support>>

\* The loop against a server that may answer anything a server can.
FetchPage ==
    \E ans \in StatusAnswers(max_id), cbRaises \in BOOLEAN : FetchPageWith(ans, cbRaises)

\* api.py:138-141.
ClearPostCache ==
    /\ pc = "idle"
    /\ call' = [NoCall EXCEPT !.op = "clear_post_cache"]
    /\ cached_posts' = None
    /\ cache_origin' = "none"
    /\ outcome' = "returned"
    /\ requests' = <<>>
    /\ NoFetchLocals /\ NoUpdateLocals /\ NoReturns
    /\ UNCHANGED <<serverPosts, instanceVersion, account, instance_info, version_checked,
                   pc>>

\* ------------------------------------------------- update_post_quotability
\* api.py:158-177: the ValueError for a policy that is not valid, else one PUT
\* to /api/v1/statuses/<id>/interaction_policy, answered (putOk) or failing.
UpdatePostQuotabilityResult(status_id, policy, putOk) ==
    IF policy \notin valid_policies
    THEN [raises |-> TRUE, ret |-> FALSE, reqs |-> <<>>]
    ELSE [raises |-> FALSE, ret |-> putOk,
          reqs |-> <<Request("PUT_interaction_policy", Some(status_id), policy, putOk, <<>>)>>]

\* api.py:321-332.
SetDefaultQuotePolicyResult(policy, updateOk) ==
    IF policy \notin valid_policies
    THEN [raises |-> TRUE, ret |-> FALSE, reqs |-> <<>>]
    ELSE [raises |-> FALSE, ret |-> updateOk,
          reqs |-> <<Request("account_update_credentials", None, policy, updateOk, <<>>)>>]

\* A call of update_post_quotability by a user of the library.
UpdatePostQuotability(status_id, policy) ==
    /\ pc = "idle"
    /\ call' = [NoCall EXCEPT !.op = "update_post_quotability", !.policy = policy,
                              !.status_id = status_id]
    /\ \E putOk \in BOOLEAN :
        LET r == UpdatePostQuotabilityResult(status_id, policy, putOk)
        IN  /\ requests' = r.reqs
            /\ outcome' = IF r.raises THEN "ValueError" ELSE "returned"
            /\ ret_bool' = r.ret
    /\ NoFetchLocals /\ NoUpdateLocals
    /\ ret_posts' = <<>> /\ ret_support' = NoSupport
    /\ UNCHANGED <<serverPosts, instanceVersion, account, cached_posts, cache_origin, instance_info,
                   version_checked, pc>>

\* A call of set_default_quote_policy.
SetDefaultQuotePolicy(policy) ==
    /\ pc = "idle"
    /\ call' = [NoCall EXCEPT !.op = "set_default_quote_policy", !.policy = policy]
    /\ \E updateOk \in BOOLEAN :
        LET r == SetDefaultQuotePolicyResult(policy, updateOk)
        IN  /\ requests' = r.reqs
            /\ outcome' = IF r.raises THEN "ValueError" ELSE "returned"
            /\ ret_bool' = r.ret
    /\ NoFetchLocals /\ NoUpdateLocals
    /\ ret_posts' = <<>> /\ ret_support' = NoSupport
    /\ UNCHANGED <<serverPosts, instanceVersion, account, cached_posts, cache_origin, instance_info,
                   version_checked, pc>>

\* api.py:37-68 called as the method `op` of the object, which returns the
\* pair of the check.
SupportCall(op) ==
    /\ pc = "idle"
    /\ call' = [NoCall EXCEPT !.op = op]
    /\ \E ans \in InstanceAnswers :
        LET chk == CheckSupport(version_checked, instance_info, ans)
        IN  /\ version_checked' = chk.version_checked
            /\ instance_info' = chk.instance_info
            /\ ret_support' = [supported |-> chk.supported, version |-> chk.version]
    /\ outcome' = "returned"
    /\ requests' = <<>>
    /\ NoFetchLocals /\ NoUpdateLocals
    /\ ret_posts' = <<>> /\ ret_bool' = FALSE
    /\ UNCHANGED <<serverPosts, instanceVersion, account, cached_posts, cache_origin, pc>>

\* A call of check_quote_policy_support.
CheckQuotePolicySupport == SupportCall("check_quote_policy_support")

\* api.py:274-294: get_account_info, whose 'supports_quote_policies' and
\* 'instance_version' are the pair of the check; the other keys are copied
\* from the account.
GetAccountInfo == SupportCall("get_account_info")

\* ----------------------------------------- enable_quotability_for_all_posts
\* Mutant of RaisesUnsupported: the check's answer is ignored.
RaisesUnsupported_Never(supported) == FALSE

\* api.py:199, the abort on an instance that does not support quote policies.
RaisesUnsupported(supported) == ~supported

\* Mutant of Tally: a failed update is not counted.
Tally_SuccessOnly(res, success) ==
    IF success THEN [res EXCEPT !.success = @ + 1] ELSE res

\* api.py:218-221, the tally of one update.
Tally(res, success) ==
    IF success THEN [res EXCEPT !.success = @ + 1] ELSE [res EXCEPT !.failed = @ + 1]

\* Mutant of NextPost: a failed update is tried again.
NextPost_Retry(k, success) == IF success THEN k + 1 ELSE k

\* api.py:215: the for loop goes on to the next post whatever the update returned.
NextPost(k, success) == k + 1

\* api.py:197-211: the support check, then get_all_posts() (served by the
\* cache, or entering the pagination loop).
EnableQuotability(policy, callback) ==
    /\ pc = "idle"
    /\ call' = [NoCall EXCEPT !.op = "enable_quotability_for_all_posts",
                              !.policy = policy, !.callback = callback]
    /\ requests' = <<>>
    /\ ret_posts' = <<>> /\ ret_bool' = FALSE
    /\ \E ans \in InstanceAnswers :
        LET chk == CheckSupport(version_checked, instance_info, ans)
        IN  /\ version_checked' = chk.version_checked
            /\ instance_info' = chk.instance_info
            /\ ret_support' = [supported |-> chk.supported, version |-> chk.version]
            /\ IF RaisesUnsupported(chk.supported)
               THEN /\ outcome' = "RuntimeError"
                    /\ NoFetchLocals /\ NoUpdateLocals
                    /\ UNCHANGED pc
               ELSE IF CacheHit(TRUE, cached_posts)
               THEN /\ outcome' = "running"
                    /\ pc' = "updating"
                    /\ posts' = Get(cached_posts)
                    /\ results' = NewResults(Get(cached_posts))
                    /\ i' = 0
                    /\ NoFetchLocals
               ELSE /\ outcome' = "running"
                    /\ pc' = "fetching"
                    /\ caller' = "enable"
                    /\ all_posts' = <<>>
                    /\ max_id' = None
                    /\ NoUpdateLocals
    /\ UNCHANGED <<serverPosts, instanceVersion, account, cached_posts, cache_origin>>

\* api.py:215-227: one iteration of the update loop.  i counts the posts
\* whose update was tallied.
UpdateStep ==
    /\ pc = "updating"
    /\ i < Len(posts)
    /\ \E putOk \in BOOLEAN, cbRaises \in BOOLEAN :
        LET post == posts[i + 1]
            r    == UpdatePostQuotabilityResult(post.id, call.policy, putOk)
        IN  /\ cbRaises => (call.callback /\ ~r.raises)
            /\ requests' = requests \o r.reqs
            /\ IF r.raises
               THEN /\ outcome' = "ValueError"
                    /\ pc' = "idle"
                    /\ UNCHANGED <<results, i>>
               ELSE /\ results' = Tally(results, r.ret)
                    /\ i' = NextPost(i, r.ret)
                    /\ IF cbRaises
                       THEN outcome' = "CallbackError" /\ pc' = "idle"
                       ELSE UNCHANGED <<outcome, pc>>
    /\ UNCHANGED <<serverPosts, instanceVersion, account, cached_posts, cache_origin, instance_info,
                   version_checked, call, caller, all_posts, max_id, posts, ret_posts,
                   ret_bool, ret_support>>

\* api.py:229: the loop is exhausted and the results are returned.
EnableReturn ==
    /\ pc = "updating"
    /\ i >= Len(posts)
    /\ pc' = "idle"
    /\ outcome' = "returned"
    /\ UNCHANGED <<serverPosts, instanceVersion, account, cached_posts, cache_origin, instance_info,
                   version_checked, call, caller, all_posts, max_id, posts, results, i,
                   ret_posts, ret_bool, ret_support, requests>>

\* ------------------------------------------------------ the API specification
\* The statuses n, n-1, ..., 1 of an account with n statuses, newest first.
Statuses(n) == [k \in 1..n |-> [id |-> n + 1 - k]]

\* The versions the instance of Spec reports: 4.5.0, 4.4, 5, or no version.
SpecVersions ==
    {Some(<<"4", ".", "5", ".", "0">>), Some(<<"4", ".", "4">>), Some(<<"5">>), None}

\* api.py:20-24: the fields of the object __init__ leaves, and its call state.
ApiFieldsInit ==
    /\ cached_posts = None
    /\ cache_origin = "none"
    /\ instance_info = None
    /\ version_checked = FALSE
    /\ pc = "idle"
    /\ call = NoCall
    /\ caller = "get_all_posts"
    /\ all_posts = <<>>
    /\ max_id = None
    /\ posts = <<>>
    /\ results = NoResults
    /\ i = 0
    /\ outcome = "returned"
    /\ ret_posts = <<>>
    /\ ret_bool = FALSE
    /\ ret_support = NoSupport
    /\ requests = <<>>

\* MastodonQuotabilityAPI.__init__ (api.py:20-24) against a server holding
\* up to MaxPosts statuses.
ApiInit ==
    /\ serverPosts \in {Statuses(n) : n \in 0..MaxPosts}
    /\ account = [id |-> 1, statuses_count |-> Len(serverPosts)]
    /\ ApiFieldsInit

\* ------------------------------------------------------ MastodonAuthManager
\* Instance URLs are sequences of tokens: a scheme, a host name, "/", "_", " ".
Schemes == {"https://", "http://"}

\* str.replace(old, '') for a one-token old.
RECURSIVE Remove(_, _)
Remove(s, tok) ==
    IF s = <<>> THEN <<>>
    ELSE (IF s[1] = tok THEN <<>> ELSE <<s[1]>>) \o Remove(Tail(s), tok)

\* auth.py:39-41.
sanitize_url(url) ==
    LET bare == Remove(Remove(url, "https://"), "http://")
    IN  [k \in 1..Len(bare) |-> IF bare[k] = "/" THEN "_" ELSE bare[k]]

\* str.rstrip('/').
RECURSIVE RStrip(_, _)
RStrip(s, tok) ==
    IF s # <<>> /\ Last(s) = tok THEN RStrip(SubSeq(s, 1, Len(s) - 1), tok) ELSE s

\* auth.py:15-37: the manager built for an instance URL.  The credential
\* file names are built from the URL as given, instance_url is stripped.
MastodonAuthManager(url) ==
    [instance_url     |-> RStrip(url, "/"),
     client_cred_file |-> <<sanitize_url(url), "_client.secret">>,
     user_cred_file   |-> <<sanitize_url(url), "_user.secret">>]

\* auth.py:53-55, on the files `fs`.
is_authenticated(m, fs) == m.user_cred_file \in fs

\* auth.py:141-147: what get_api_client does.
GetApiClientOutcome(m, fs) == IF ~is_authenticated(m, fs) THEN "ValueError" ELSE "returned"

\* Mutant of ClearedFiles: only the user token is removed.
ClearedFiles_UserOnly(m, fs) == fs \ {m.user_cred_file}

\* auth.py:151-154: the files left by clear_credentials.
ClearedFiles(m, fs) == fs \ {m.client_cred_file, m.user_cred_file}

\* auth.py:64-78: the files left by register_app and how it ends; createOk:
\* Mastodon.create_app got its answer from the instance and wrote the file.
RegisterAppResult(m, fs, createOk) ==
    IF m.client_cred_file \in fs THEN [outcome |-> "returned", files |-> fs]
    ELSE IF createOk THEN [outcome |-> "returned", files |-> fs \cup {m.client_cred_file}]
    ELSE [outcome |-> "MastodonError", files |-> fs]

\* auth.py:87-98.
GetAuthUrlResult(m, fs, createOk) ==
    IF m.client_cred_file \notin fs THEN RegisterAppResult(m, fs, createOk)
    ELSE [outcome |-> "returned", files |-> fs]

\* auth.py:110-129: the files left by authenticate_with_code and how it
\* ends; loginOk: the instance accepted the code and log_in wrote the token.
AuthenticateResult(m, fs, loginOk) ==
    IF m.client_cred_file \notin fs THEN [outcome |-> "ValueError", files |-> fs]
    ELSE IF loginOk THEN [outcome |-> "returned", files |-> fs \cup {m.user_cred_file}]
    ELSE [outcome |-> "MastodonError", files |-> fs]

\* The instance URLs managers are built for: two spellings of one host whose
\* credential files coincide, one with a trailing slash, and another host.
Urls ==
    {<<"https://", "a">>, <<"http://", "a">>, <<"https://", "a", "/">>, <<"https://", "b">>}

\* A call of a manager method: the method, the URL the manager was built for,
\* how the call ended, and which of the manager's two files existed before it.
AuthCall(op, url, how) ==
    LET m == MastodonAuthManager(url)
    IN  [op |-> op, url |-> url, outcome |-> how,
         before |-> files \cap {m.client_cred_file, m.user_cred_file}]

AuthInit ==
    /\ files = {}
    /\ lastAuth = [op |-> "none", url |-> <<>>, outcome |-> "returned", before |-> {}]

RegisterApp(url) ==
    \E createOk \in BOOLEAN :
        LET r == RegisterAppResult(MastodonAuthManager(url), files, createOk)
        IN  /\ files' = r.files
            /\ lastAuth' = AuthCall("register_app", url, r.outcome)

GetAuthUrl(url) ==
    \E createOk \in BOOLEAN :
        LET r == GetAuthUrlResult(MastodonAuthManager(url), files, createOk)
        IN  /\ files' = r.files
            /\ lastAuth' = AuthCall("get_auth_url", url, r.outcome)

AuthenticateWithCode(url) ==
    \E loginOk \in BOOLEAN :
        LET r == AuthenticateResult(MastodonAuthManager(url), files, loginOk)
        IN  /\ files' = r.files
            /\ lastAuth' = AuthCall("authenticate_with_code", url, r.outcome)

GetApiClient(url) ==
    /\ lastAuth' = AuthCall("get_api_client", url,
                            GetApiClientOutcome(MastodonAuthManager(url), files))
    /\ UNCHANGED files

ClearCredentials(url) ==
    /\ files' = ClearedFiles(MastodonAuthManager(url), files)
    /\ lastAuth' = AuthCall("clear_credentials", url, "returned")

\* ------------------------------------------- several managers for one URL
\* The client names managers are built with: the default of auth.py:15 and
\* the one app.py:80 passes.
ClientNames == {"Quotability Manager", "Mastodon Quotability Manager"}

\* Mutant of NewAuthManager: the credential files are named after the client too.
NewAuthManager_PerClient(instance_url, client_name) ==
    [instance_url     |-> RStrip(instance_url, "/"),
     client_name      |-> client_name,
     client_cred_file |-> <<sanitize_url(instance_url), client_name, "_client.secret">>,
     user_cred_file   |-> <<sanitize_url(instance_url), client_name, "_user.secret">>]

\* auth.py:15-37: MastodonAuthManager(instance_url, client_name), the object
\* with its client_name.  No method assigns an attribute afterwards, so two
\* objects differ by the arguments they were built with only.
NewAuthManager(instance_url, client_name) ==
    [instance_url     |-> MastodonAuthManager(instance_url).instance_url,
     client_name      |-> client_name,
     client_cred_file |-> MastodonAuthManager(instance_url).client_cred_file,
     user_cred_file   |-> MastodonAuthManager(instance_url).user_cred_file]

\* The methods of a manager that touch the credential files.
ManagerOps == {"register_app", "get_auth_url", "authenticate_with_code", "clear_credentials"}

\* auth.py:57-155: the method `op` called on the manager built for
\* (instance_url, client_name); ok: the instance answers as the method needs.
ManagerCall(op, instance_url, client_name, ok) ==
    LET m == NewAuthManager(instance_url, client_name)
        r == CASE op = "register_app" -> RegisterAppResult(m, files, ok)
               [] op = "get_auth_url" -> GetAuthUrlResult(m, files, ok)
               [] op = "authenticate_with_code" -> AuthenticateResult(m, files, ok)
               [] op = "clear_credentials" ->
                      [outcome |-> "returned", files |-> ClearedFiles(m, files)]
    IN  /\ files' = r.files
        /\ lastAuth' = AuthCall(op, instance_url, r.outcome)

\* ------------------------------------------------- webapp/backend/app.py
\* The values secrets.token_urlsafe(32) is drawn from.
Tokens == {"t1", "t2", "t3"}

\* str.strip() of the blanks at both ends.
RECURSIVE LStrip(_, _)
LStrip(s, tok) == IF s # <<>> /\ s[1] = tok THEN LStrip(Tail(s), tok) ELSE s

Strip(s) == RStrip(LStrip(s, " "), " ")

\* app.py:70-71.
NormalizeUrl(url) == IF url # <<>> /\ url[1] \in Schemes THEN url ELSE <<"https://">> \o url

\* auth.py:15, the keyword parameters of MastodonAuthManager.__init__.
AuthManagerInitKeywords == {"instance_url", "client_name"}

\* auth.py:80, the keyword parameters of MastodonAuthManager.get_auth_url.
GetAuthUrlKeywords == {}

\* A Python call raises TypeError when given a keyword the function does not take.
Accepts(parameters, keywords) == keywords \subseteq parameters

NoToken == ""

HttpResponse(endpoint, status, error, session_id, state, url, reachable) ==
    [endpoint |-> endpoint, status |-> status, error |-> error,
     session_id |-> session_id, state |-> state, instance_url |-> url,
     reachable |-> reachable]

WebInit ==
    /\ auth_managers = <<>>
    /\ auth_states = <<>>
    /\ http = HttpResponse("none", 200, "", NoToken, NoToken, <<>>, TRUE)

\* app.py:62-102: POST /api/auth/start with body {"instance_url": raw}.
\* reachable: the instance answers the app registration.
StartAuth(raw, reachable) ==
    LET instance_url == Strip(raw)
        normalized   == NormalizeUrl(instance_url)
    IN  IF instance_url = <<>>
        THEN /\ http' = HttpResponse("/api/auth/start", 400, "Instance URL is required",
                                     NoToken, NoToken, instance_url, reachable)
             /\ UNCHANGED <<auth_managers, auth_states, files, lastAuth>>
        ELSE \E session_id \in Tokens \ DOMAIN auth_managers,
                state \in Tokens \ DOMAIN auth_states :
             IF ~Accepts(AuthManagerInitKeywords, {"client_name", "redirect_uri"})
             THEN \* app.py:78-82 raises TypeError, caught at app.py:101
                  /\ http' = HttpResponse("/api/auth/start", 500, "TypeError",
                                          NoToken, NoToken, instance_url, reachable)
                  /\ UNCHANGED <<auth_managers, auth_states, files, lastAuth>>
             ELSE LET auth_manager == MastodonAuthManager(normalized)
                      reg == RegisterAppResult(auth_manager, files, reachable)
                  IN  /\ files' = reg.files
                      /\ lastAuth' = AuthCall("register_app", normalized, reg.outcome)
                      /\ IF reg.outcome # "returned"
                         THEN /\ http' = HttpResponse("/api/auth/start", 500, reg.outcome,
                                                      NoToken, NoToken, instance_url, reachable)
                              /\ UNCHANGED <<auth_managers, auth_states>>
                         ELSE IF ~Accepts(GetAuthUrlKeywords, {"state"})
                         THEN \* app.py:88 raises TypeError
                              /\ http' = HttpResponse("/api/auth/start", 500, "TypeError",
                                                      NoToken, NoToken, instance_url, reachable)
                              /\ UNCHANGED <<auth_managers, auth_states>>
                         ELSE /\ auth_managers' = auth_managers @@ (session_id :> auth_manager)
                              /\ auth_states' = auth_states @@ (state :> session_id)
                              /\ http' = HttpResponse("/api/auth/start", 200, "",
                                                      session_id, state, instance_url, reachable)

\* The bodies POSTed to /api/auth/start: empty, blank, a host, a full URL.
StartAuthInputs == {<<>>, <<" ">>, <<"a">>, <<" ", "a">>, <<"https://", "a">>, <<"http://", "b">>}

\* --------------------------------------- the endpoints that take a session
\* dict without one key.
Without(f, key) == [k \in DOMAIN f \ {key} |-> f[k]]

\* The JSON bodies of a POST: an object, or JSON that is no object (null),
\* for which request.json has no .get.
JsonBodies == {"object", "null"}

\* The endpoints that build a MastodonQuotabilityAPI for a session.
SessionEndpoints == {"/api/account/info", "/api/posts/count", "/api/quotability/enable"}

\* app.py:166-179, 207-220, 246-258: the error a session endpoint answers
\* before it builds an API client, status 200 standing for none.
SessionError(session_id, managers, fs) ==
    IF session_id = NoToken THEN [status |-> 400, error |-> "Session ID is required"]
    ELSE IF session_id \notin DOMAIN managers
    THEN [status |-> 400, error |-> "Invalid session ID"]
    ELSE IF ~is_authenticated(managers[session_id], fs)
    THEN [status |-> 401, error |-> "Not authenticated"]
    ELSE [status |-> 200, error |-> ""]

\* app.py:157-268: GET /api/account/info, GET /api/posts/count (session_id in
\* the query string) and POST /api/quotability/enable (session_id in the JSON
\* body).  remoteOk: the calls made to the instance through the API client
\* succeed; a failure is answered 500 by the handler's except clause.
SessionEndpoint(endpoint, body, session_id, remoteOk) ==
    /\ endpoint # "/api/quotability/enable" => body = "object"
    /\ IF body # "object"
       THEN \* app.py:243: data.get raises AttributeError, caught at app.py:267
            http' = HttpResponse(endpoint, 500, "AttributeError", NoToken, NoToken, <<>>, TRUE)
       ELSE LET err == SessionError(session_id, auth_managers, files)
            IN  IF err.status # 200
                THEN http' = HttpResponse(endpoint, err.status, err.error, session_id,
                                          NoToken, <<>>, TRUE)
                ELSE IF remoteOk
                THEN http' = HttpResponse(endpoint, 200, "", session_id, NoToken, <<>>, TRUE)
                ELSE http' = HttpResponse(endpoint, 500, "remote", session_id, NoToken,
                                          <<>>, TRUE)
    /\ UNCHANGED <<auth_managers, auth_states, files, lastAuth>>

\* app.py:279-295: POST /api/auth/logout.
Logout(body, session_id) ==
    IF body # "object"
    THEN /\ http' = HttpResponse("/api/auth/logout", 500, "AttributeError", NoToken,
                                 NoToken, <<>>, TRUE)
         /\ UNCHANGED <<auth_managers, auth_states, files, lastAuth>>
    ELSE IF session_id = NoToken
    THEN /\ http' = HttpResponse("/api/auth/logout", 400, "Session ID is required", NoToken,
                                 NoToken, <<>>, TRUE)
         /\ UNCHANGED <<auth_managers, auth_states, files, lastAuth>>
    ELSE /\ http' = HttpResponse("/api/auth/logout", 200, "", session_id, NoToken, <<>>, TRUE)
         /\ UNCHANGED auth_states
         /\ IF session_id \in DOMAIN auth_managers
            THEN /\ files' = ClearedFiles(auth_managers[session_id], files)
                 /\ lastAuth' = AuthCall("clear_credentials",
                                         auth_managers[session_id].instance_url, "returned")
                 /\ auth_managers' = Without(auth_managers, session_id)
            ELSE UNCHANGED <<auth_managers, files, lastAuth>>

\* app.py:140-154: the end of auth_callback, common to GET and POST.
CompleteAuth(method, session_id, state, loginOk) ==
    IF session_id \notin DOMAIN auth_managers
    THEN /\ http' = HttpResponse(method, 400, "Invalid session ID", session_id, state,
                                 <<>>, TRUE)
         /\ UNCHANGED <<auth_managers, files, lastAuth>>
    ELSE LET m == auth_managers[session_id]
             r == AuthenticateResult(m, files, loginOk)
         IN  /\ files' = r.files
             /\ lastAuth' = AuthCall("authenticate_with_code", m.instance_url, r.outcome)
             /\ http' = IF r.outcome = "returned"
                        THEN HttpResponse(method, 200, "", session_id, state, <<>>, TRUE)
                        ELSE HttpResponse(method, 500, r.outcome, session_id, state,
                                          <<>>, TRUE)
             /\ UNCHANGED auth_managers

\* app.py:114-130: GET /api/auth/callback?code=...&state=...
AuthCallbackGet(hasCode, state, loginOk) ==
    IF ~hasCode \/ state = NoToken
    THEN /\ http' = HttpResponse("GET /api/auth/callback", 400,
                                 "Missing code or state parameter", NoToken, state, <<>>, TRUE)
         /\ UNCHANGED <<auth_managers, auth_states, files, lastAuth>>
    ELSE IF state \notin DOMAIN auth_states
    THEN /\ http' = HttpResponse("GET /api/auth/callback", 400,
                                 "Invalid or expired state token", NoToken, state, <<>>, TRUE)
         /\ UNCHANGED <<auth_managers, auth_states, files, lastAuth>>
    ELSE /\ auth_states' = Without(auth_states, state)
         /\ CompleteAuth("GET /api/auth/callback", auth_states[state], state, loginOk)

\* app.py:132-138: POST /api/auth/callback with a JSON body.
AuthCallbackPost(body, session_id, hasCode, loginOk) ==
    IF body # "object"
    THEN /\ http' = HttpResponse("POST /api/auth/callback", 500, "AttributeError", NoToken,
                                 NoToken, <<>>, TRUE)
         /\ UNCHANGED <<auth_managers, auth_states, files, lastAuth>>
    ELSE IF session_id = NoToken \/ ~hasCode
    THEN /\ http' = HttpResponse("POST /api/auth/callback", 400,
                                 "Session ID and auth code are required", session_id,
                                 NoToken, <<>>, TRUE)
         /\ UNCHANGED <<auth_managers, auth_states, files, lastAuth>>
    ELSE /\ UNCHANGED auth_states
         /\ CompleteAuth("POST /api/auth/callback", session_id, NoToken, loginOk)

\* ------------------------------------------- cli/mastodon_quotability_cli.py
NoArgs == [command |-> "none", policy |-> "public", instance |-> <<>>]

CliInit ==
    /\ cliPc = "start"
    /\ cliArgs = NoArgs
    /\ cliEvent = "none"
    /\ cliExit = -1

\* cli:132, the choices of --policy.
PolicyChoices == {"public", "followers", "nobody"}

\* cli:147-149.
CliInstanceUrl(instance) ==
    IF instance # <<>> /\ instance[1] \in Schemes THEN instance ELSE <<"https://">> \o instance

\* The process ends with an exit status; `event` is what ended the command.
CliExits(status, event) ==
    /\ cliPc' = "exited"
    /\ cliExit' = status
    /\ cliEvent' = event

\* The fields of a MastodonQuotabilityAPI object just built (api.py:20-24) in
\* a process that has called none of its methods.
NewApiObject ==
    /\ cached_posts' = None
    /\ cache_origin' = "none"
    /\ instance_info' = None
    /\ version_checked' = FALSE
    /\ pc' = "idle"
    /\ call' = NoCall
    /\ outcome' = "returned"
    /\ requests' = <<>>
    /\ NoFetchLocals /\ NoUpdateLocals /\ NoReturns

apiObjectVars == <<cached_posts, cache_origin, instance_info, version_checked, pc, call, caller,
                   all_posts, max_id, posts, results, i, outcome, ret_posts, ret_bool,
                   ret_support, requests>>

serverVars == <<serverPosts, instanceVersion, account>>

\* cli:96-155: a run of the tool is started; the arguments are parsed, and the
\* logout command is carried out.
CliMain(command, policy, instance) ==
    /\ cliPc \in {"start", "exited"}
    /\ command # "enable" => policy = "public"
    /\ cliArgs' = [command |-> command, policy |-> policy,
                   instance |-> CliInstanceUrl(instance)]
    /\ NewApiObject
    /\ UNCHANGED serverVars
    /\ IF policy \notin PolicyChoices
       THEN \* argparse rejects the value: exit status 2
            CliExits(2, "usage") /\ UNCHANGED authVars
       ELSE IF command = "none"
       THEN \* cli:142-144
            CliExits(1, "usage") /\ UNCHANGED authVars
       ELSE IF command = "logout"
       THEN \* cli:152-155
            /\ ClearCredentials(CliInstanceUrl(instance))
            /\ CliExits(0, "none")
       ELSE /\ cliPc' = "authenticate"
            /\ cliExit' = -1
            /\ cliEvent' = "none"
            /\ UNCHANGED authVars

\* cli:20-37: authenticate() up to the prompt for the authorization code.
CliAuthenticate ==
    /\ cliPc = "authenticate"
    /\ LET m == MastodonAuthManager(cliArgs.instance)
       IN  IF is_authenticated(m, files)
           THEN /\ cliPc' = "client"
                /\ UNCHANGED <<cliEvent, cliExit, authVars>>
           ELSE \E createOk \in BOOLEAN :
                LET reg == RegisterAppResult(m, files, createOk)
                    url == GetAuthUrlResult(m, reg.files, createOk)
                IN  /\ files' = url.files
                    /\ lastAuth' = AuthCall(IF reg.outcome = "returned"
                                            THEN "get_auth_url" ELSE "register_app",
                                            cliArgs.instance, url.outcome)
                    /\ IF reg.outcome # "returned" \/ url.outcome # "returned"
                       THEN CliExits(1, "Exception")
                       ELSE cliPc' = "input_code" /\ UNCHANGED <<cliEvent, cliExit>>
    /\ UNCHANGED <<cliArgs, apiVars>>

\* cli:40-45: the code is read (or the input ends) and exchanged for a token.
CliEnterCode(entered) ==
    /\ cliPc = "input_code"
    /\ IF ~entered
       THEN \* input() raises EOFError
            CliExits(1, "Exception") /\ UNCHANGED authVars
       ELSE \E loginOk \in BOOLEAN :
            LET r == AuthenticateResult(MastodonAuthManager(cliArgs.instance), files, loginOk)
            IN  /\ files' = r.files
                /\ lastAuth' = AuthCall("authenticate_with_code", cliArgs.instance, r.outcome)
                /\ IF r.outcome # "returned"
                   THEN CliExits(1, "Exception")
                   ELSE cliPc' = "client" /\ UNCHANGED <<cliEvent, cliExit>>
    /\ UNCHANGED <<cliArgs, apiVars>>

\* cli:162-171: the API client and object are built (verifyOk: the instance
\* answers account_verify_credentials), and show_account_info calls
\* get_account_info (api.py:282), which checks the instance's support.
CliShowInfo ==
    /\ cliPc = "client"
    /\ \E verifyOk \in BOOLEAN, ans \in InstanceAnswers :
        IF GetApiClientOutcome(MastodonAuthManager(cliArgs.instance), files) # "returned"
           \/ ~verifyOk
        THEN /\ CliExits(1, "Exception")
             /\ UNCHANGED apiObjectVars
        ELSE LET chk == CheckSupport(version_checked, instance_info, ans)
             IN  /\ version_checked' = chk.version_checked
                 /\ instance_info' = chk.instance_info
                 /\ UNCHANGED <<cached_posts, cache_origin, pc, call, caller, all_posts, max_id, posts,
                                results, i, outcome, ret_posts, ret_bool, ret_support,
                                requests>>
                 /\ IF cliArgs.command = "info"
                    THEN CliExits(0, "none")
                    ELSE cliPc' = "confirm" /\ UNCHANGED <<cliEvent, cliExit>>
    /\ UNCHANGED <<cliArgs, authVars, serverVars>>

\* The answers typed at the confirmation prompt, after strip().lower().
Answers == {"yes", "no", ""}

\* cli:62-83: enable_quotability() up to the call of the bulk update; answered:
\* input() returned a line.
CliConfirm(answered, confirm) ==
    /\ cliPc = "confirm"
    /\ IF ~answered
       THEN \* input() raises EOFError
            CliExits(1, "Exception") /\ UNCHANGED apiVars
       ELSE IF confirm # "yes"
       THEN \* cli:73-75: prints "Operation cancelled." and returns to main, which returns
            CliExits(0, "declined") /\ UNCHANGED apiVars
       ELSE /\ EnableQuotability(cliArgs.policy, TRUE)
            /\ cliPc' = "enabling"
            /\ UNCHANGED <<cliEvent, cliExit>>
    /\ UNCHANGED <<cliArgs, authVars>>

\* The bulk update runs inside the command.
CliBulk(step) ==
    /\ cliPc = "enabling"
    /\ step
    /\ UNCHANGED <<cliVars, authVars>>

\* cli:85-93 and cli:176-178: the bulk update has returned and the results are
\* printed, or it has raised and main exits with 1.
CliFinish ==
    /\ cliPc = "enabling"
    /\ pc = "idle"
    /\ outcome # "running"
    /\ IF outcome = "returned" THEN CliExits(0, "none") ELSE CliExits(1, "Exception")
    /\ UNCHANGED <<cliArgs, authVars, apiVars>>

\* cli:173-175: Ctrl-C while the try block of main runs.
CliKeyboardInterrupt ==
    /\ cliPc \in {"authenticate", "input_code", "client", "confirm", "enabling"}
    /\ CliExits(1, "KeyboardInterrupt")
    /\ IF cliPc = "enabling" /\ pc # "idle"
       THEN /\ pc' = "idle"
            /\ outcome' = "KeyboardInterrupt"
            /\ UNCHANGED <<cached_posts, cache_origin, instance_info, version_checked, call, caller,
                           all_posts, max_id, posts, results, i, ret_posts, ret_bool,
                           ret_support, requests>>
       ELSE UNCHANGED apiObjectVars
    /\ UNCHANGED <<cliArgs, authVars, serverVars>>

\* ---------------------------------------------------------- specifications
\* The API object of one authenticated session, used through its public methods.
Init ==
    /\ instanceVersion \in SpecVersions
    /\ ApiInit
    /\ AuthInit
    /\ WebInit
    /\ CliInit

notApiVars == <<authVars, webVars, cliVars>>

Next ==
    \/ \E use_cache \in BOOLEAN, callback \in BOOLEAN :
          GetAllPosts(use_cache, callback) /\ UNCHANGED notApiVars
    \/ FetchPage /\ UNCHANGED notApiVars
    \/ ClearPostCache /\ UNCHANGED notApiVars
    \/ \E status_id \in 1..MaxPosts, policy \in Policies :
          UpdatePostQuotability(status_id, policy) /\ UNCHANGED notApiVars
    \/ \E policy \in Policies : SetDefaultQuotePolicy(policy) /\ UNCHANGED notApiVars
    \/ CheckQuotePolicySupport /\ UNCHANGED notApiVars
    \/ GetAccountInfo /\ UNCHANGED notApiVars
    \/ \E policy \in Policies, callback \in BOOLEAN :
          EnableQuotability(policy, callback) /\ UNCHANGED notApiVars
    \/ UpdateStep /\ UNCHANGED notApiVars
    \/ EnableReturn /\ UNCHANGED notApiVars

Spec == Init /\ [][Next]_vars

\* All strings of at most n characters.
StringsUpTo(chars, n) == UNION {[1..k -> chars] : k \in 0..n}

\* A fresh API object on an instance that reports any string of
\* VersionChars of at most MaxVersionLen characters, or no version at all.
InitVersion ==
    /\ instanceVersion \in {None} \cup {Some(v) : v \in StringsUpTo(VersionChars, MaxVersionLen)}
    /\ serverPosts = <<>>
    /\ ApiInit
    /\ AuthInit
    /\ WebInit
    /\ CliInit

NextVersion == CheckQuotePolicySupport /\ UNCHANGED notApiVars

SpecVersion == InitVersion /\ [][NextVersion]_vars

\* The credential store used through managers for the instance URLs of Urls,
\* and the web backend's /api/auth/start.
InitAuth ==
    /\ instanceVersion = None
    /\ serverPosts = <<>>
    /\ ApiInit
    /\ AuthInit
    /\ WebInit
    /\ CliInit

notAuthVars == <<apiVars, cliVars>>

NextAuth ==
    \/ \E url \in Urls : RegisterApp(url) /\ UNCHANGED <<webVars, notAuthVars>>
    \/ \E url \in Urls : GetAuthUrl(url) /\ UNCHANGED <<webVars, notAuthVars>>
    \/ \E url \in Urls : AuthenticateWithCode(url) /\ UNCHANGED <<webVars, notAuthVars>>
    \/ \E url \in Urls : GetApiClient(url) /\ UNCHANGED <<webVars, notAuthVars>>
    \/ \E url \in Urls : ClearCredentials(url) /\ UNCHANGED <<webVars, notAuthVars>>
    \/ \E raw \in StartAuthInputs, reachable \in BOOLEAN :
          StartAuth(raw, reachable) /\ UNCHANGED notAuthVars
    \/ \E endpoint \in SessionEndpoints, body \in JsonBodies,
          session_id \in Tokens \cup {NoToken}, remoteOk \in BOOLEAN :
          SessionEndpoint(endpoint, body, session_id, remoteOk) /\ UNCHANGED notAuthVars
    \/ \E body \in JsonBodies, session_id \in Tokens \cup {NoToken} :
          Logout(body, session_id) /\ UNCHANGED notAuthVars
    \/ \E hasCode \in BOOLEAN, state \in Tokens \cup {NoToken}, loginOk \in BOOLEAN :
          AuthCallbackGet(hasCode, state, loginOk) /\ UNCHANGED notAuthVars
    \/ \E body \in JsonBodies, session_id \in Tokens \cup {NoToken},
          hasCode \in BOOLEAN, loginOk \in BOOLEAN :
          AuthCallbackPost(body, session_id, hasCode, loginOk) /\ UNCHANGED notAuthVars

SpecAuth == InitAuth /\ [][NextAuth]_vars

\* The instance arguments given to the tool: a host, and a full URL.
CliInstances == {<<"a">>, <<"https://", "a">>}

\* Runs of the command-line tool, one after the other, over one credential
\* directory.
InitCli ==
    /\ instanceVersion \in SpecVersions
    /\ ApiInit
    /\ AuthInit
    /\ WebInit
    /\ CliInit

NextCli ==
    \/ \E command \in {"none", "info", "enable", "logout"}, policy \in Policies,
          instance \in CliInstances :
          CliMain(command, policy, instance) /\ UNCHANGED webVars
    \/ CliAuthenticate /\ UNCHANGED webVars
    \/ \E entered \in BOOLEAN : CliEnterCode(entered) /\ UNCHANGED webVars
    \/ CliShowInfo /\ UNCHANGED webVars
    \/ \E answered \in BOOLEAN, confirm \in Answers :
          CliConfirm(answered, confirm) /\ UNCHANGED webVars
    \/ CliBulk(FetchPage) /\ UNCHANGED webVars
    \/ CliBulk(UpdateStep) /\ UNCHANGED webVars
    \/ CliBulk(EnableReturn) /\ UNCHANGED webVars
    \/ CliFinish /\ UNCHANGED webVars
    \/ CliKeyboardInterrupt /\ UNCHANGED webVars

SpecCli == InitCli /\ [][NextCli]_vars

\* get_all_posts against a server that pages as the Mastodon API documents,
\* called without a progress callback.  The loop, once started, keeps running.
InitHonest ==
    /\ instanceVersion = None
    /\ serverPosts \in {Statuses(n) : n \in 0..MaxHonestPosts}
    /\ account = [id |-> 1, statuses_count |-> Len(serverPosts)]
    /\ ApiFieldsInit
    /\ AuthInit
    /\ WebInit
    /\ CliInit

HonestFetchPage == FetchPageWith(HonestAnswer(max_id), FALSE) /\ UNCHANGED notApiVars

NextHonest ==
    \/ \E use_cache \in BOOLEAN : GetAllPosts(use_cache, FALSE) /\ UNCHANGED notApiVars
    \/ HonestFetchPage
    \/ ClearPostCache /\ UNCHANGED notApiVars

SpecHonest == InitHonest /\ [][NextHonest]_vars /\ WF_vars(HonestFetchPage)

\* Managers built for the URLs of Urls with the names of ClientNames, as the
\* CLI and the web sessions of one machine build them, their methods called
\* in any order.
InitManagers ==
    /\ instanceVersion = None
    /\ serverPosts = <<>>
    /\ ApiInit
    /\ AuthInit
    /\ WebInit
    /\ CliInit

NextManagers ==
    \/ \E url \in Urls, client_name \in ClientNames, ok \in BOOLEAN :
          ManagerCall("register_app", url, client_name, ok)
              /\ UNCHANGED <<webVars, notAuthVars>>
    \/ \E url \in Urls, client_name \in ClientNames, ok \in BOOLEAN :
          ManagerCall("get_auth_url", url, client_name, ok)
              /\ UNCHANGED <<webVars, notAuthVars>>
    \/ \E url \in Urls, client_name \in ClientNames, ok \in BOOLEAN :
          ManagerCall("authenticate_with_code", url, client_name, ok)
              /\ UNCHANGED <<webVars, notAuthVars>>
    \/ \E url \in Urls, client_name \in ClientNames, ok \in BOOLEAN :
          ManagerCall("clear_credentials", url, client_name, ok)
              /\ UNCHANGED <<webVars, notAuthVars>>

SpecManagers == InitManagers /\ [][NextManagers]_vars

\* ------------------------------------------------------ properties of the API
\* The three policy values of the Mastodon API, written out.
ThreePolicies == {"public", "followers", "nobody"}

\* The requests of the call, of one kind, in the order issued.
RequestsOf(op) == SelectSeq(requests, LAMBDA r : r.op = op)

RECURSIVE ConcatPages(_)
ConcatPages(reqs) ==
    IF reqs = <<>> THEN <<>>
    ELSE (IF reqs[1].ok THEN reqs[1].page ELSE <<>>) \o ConcatPages(Tail(reqs))

InBulk == call.op = "enable_quotability_for_all_posts"

\* C1: in enable_quotability_for_all_posts, success + failed is the number of
\* posts processed so far (the updates tallied, which is the number of PUT
\* requests issued) after every iteration, and at return
\* success + failed = total = the number of fetched posts.
C1_TallySumsToProcessed ==
    InBulk =>
        /\ results.success + results.failed = i
        /\ results.success + results.failed = Len(RequestsOf("PUT_interaction_policy"))
        /\ pc = "updating" => results.total = Len(posts) /\ i <= Len(posts)
        /\ outcome = "returned" =>
              /\ results.success + results.failed = results.total
              /\ results.total = Len(posts)
              /\ posts = Get(cached_posts)

\* A bulk update of at least three posts has returned with successes and failures.
C1_Witness ==
    /\ InBulk /\ outcome = "returned"
    /\ results.success >= 1 /\ results.failed >= 1 /\ results.total >= 3

\* C2: every PUT to the interaction_policy endpoint and every
\* account_update_credentials call carries one of public, followers, nobody;
\* update_post_quotability and set_default_quote_policy called with any other
\* value raise ValueError without a remote request.
C2_OnlyValidPoliciesWritten ==
    /\ \A k \in 1..Len(requests) :
          requests[k].op \in {"PUT_interaction_policy", "account_update_credentials"}
              => requests[k].policy \in ThreePolicies
    /\ (call.op \in {"update_post_quotability", "set_default_quote_policy"}
          /\ call.policy \notin ThreePolicies)
          => outcome = "ValueError" /\ requests = <<>>

\* set_default_quote_policy was called with a value that is no policy and raised.
C2_Witness ==
    /\ call.op = "set_default_quote_policy"
    /\ call.policy \notin ThreePolicies
    /\ outcome = "ValueError"

\* C3 (as claimed): enable_quotability_for_all_posts given a policy outside
\* public, followers, nobody ends with an error and never returns a result
\* dictionary, whatever the fetched list, the empty list included.
C3_BulkRejectsInvalidPolicy ==
    (InBulk /\ call.policy \notin ThreePolicies) => outcome # "returned"

\* C5: get_all_posts issues no account_statuses request after the first empty
\* page or the first exception, and returns the concatenation, in order, of the
\* non-empty pages received.
C5_PaginationStops ==
    LET reqs == RequestsOf("account_statuses")
    IN  /\ \A k \in 1..(Len(reqs) - 1) : reqs[k].ok /\ reqs[k].page # <<>>
        /\ pc = "fetching" =>
              /\ \A k \in 1..Len(reqs) : reqs[k].ok /\ reqs[k].page # <<>>
              /\ all_posts = ConcatPages(reqs)
        /\ (call.op = "get_all_posts" /\ outcome = "returned" /\ reqs # <<>>) =>
              /\ ret_posts = ConcatPages(reqs)
              /\ cached_posts = Some(ConcatPages(reqs))

\* get_all_posts has returned two pages after the third request raised.
C5_Witness ==
    /\ call.op = "get_all_posts" /\ outcome = "returned"
    /\ Len(requests) = 3
    /\ ~requests[3].ok
    /\ Len(ret_posts) >= 2

\* C6: in enable_quotability_for_all_posts the PUT requests issued are those
\* of the fetched posts, one each, in fetch order, whether or not earlier ones
\* failed; when the call returns, as many were issued as total.
C6_OnePutPerPostInOrder ==
    LET puts == RequestsOf("PUT_interaction_policy")
    IN  InBulk =>
            /\ Len(puts) <= Len(posts)
            /\ \A k \in 1..Len(puts) : puts[k].arg = Some(posts[k].id)
            /\ outcome = "returned" => Len(puts) = results.total /\ Len(puts) = Len(posts)

\* A bulk update has returned after an update other than the last one failed.
C6_Witness ==
    LET puts == RequestsOf("PUT_interaction_policy")
    IN  /\ InBulk /\ outcome = "returned"
        /\ Len(puts) >= 2
        /\ ~puts[1].ok

\* C7: when check_quote_policy_support reports the instance as not
\* supporting quote policies, enable_quotability_for_all_posts raises
\* RuntimeError having requested no page of statuses and issued no PUT.
C7_UnsupportedAbortsBeforeBatch ==
    (InBulk /\ ~ret_support.supported) =>
        /\ outcome = "RuntimeError"
        /\ pc = "idle"
        /\ requests = <<>>

\* The bulk update was refused on an account that has statuses.
C7_Witness ==
    /\ InBulk /\ outcome = "RuntimeError"
    /\ ~ret_support.supported
    /\ Len(serverPosts) >= 1

\* ------------------------------------------- properties of the pagination
\* C11: against a server that answers each request with the up to 40 newest
\* statuses strictly older than max_id, the first request of get_all_posts
\* carries no cursor, each later one carries the id of the last status of the
\* page before, no request fails, the call terminates, and it returns the
\* statuses of the account, each once, in the order of the server.
C11_HonestPaginationComplete ==
    LET reqs == RequestsOf("account_statuses")
    IN  /\ [](/\ \A k \in 1..Len(reqs) :
                   /\ reqs[k].ok
                   /\ Len(reqs[k].page) <= PageLimit
                   /\ reqs[k].arg = IF k = 1 THEN None
                                    ELSE Some(Last(reqs[k - 1].page).id)
              /\ (call.op = "get_all_posts" /\ outcome = "returned" /\ reqs # <<>>) =>
                   /\ ret_posts = serverPosts
                   /\ Last(reqs).page = <<>>)
        /\ (pc = "fetching" ~> pc = "idle")

\* An account of more than 80 statuses was fetched in three pages and an empty one.
C11_Witness ==
    /\ call.op = "get_all_posts" /\ outcome = "returned"
    /\ Len(requests) = 4
    /\ Len(requests[1].page) = PageLimit /\ Len(requests[3].page) >= 1
    /\ Len(ret_posts) > 2 * PageLimit

\* ------------------------------------------------- properties of the cache
\* A step that starts a call of get_all_posts.
StartsGetAllPosts == pc = "idle" /\ call'.op = "get_all_posts"

\* A step in which a call of get_all_posts returns to its caller.
CompletesGetAllPosts ==
    \/ StartsGetAllPosts /\ pc' = "idle"
    \/ pc = "fetching" /\ pc' # "fetching"

\* What every step does to the cache.
CacheStep ==
    /\ CompletesGetAllPosts =>
          /\ ~IsNone(cached_posts')
          /\ call'.op = "get_all_posts" => ret_posts' = Get(cached_posts')
    /\ (~IsNone(cached_posts) /\ IsNone(cached_posts')) => call'.op = "clear_post_cache"
    /\ call'.op = "clear_post_cache" => IsNone(cached_posts')
    /\ (StartsGetAllPosts /\ call'.use_cache /\ ~IsNone(cached_posts)) =>
          /\ outcome' = "returned"
          /\ ret_posts' = Get(cached_posts)
          /\ requests' = <<>>
          /\ cached_posts' = cached_posts
    /\ (StartsGetAllPosts /\ (~call'.use_cache \/ IsNone(cached_posts))) =>
          /\ pc' = "fetching" /\ outcome' = "running"
          /\ all_posts' = <<>> /\ max_id' = None /\ requests' = <<>>
    /\ (pc = "fetching" /\ pc' # "fetching") =>
          cached_posts' = Some(ConcatPages(requests'))

\* C12: the post cache of one API object.  A completed get_all_posts leaves
\* its result as the cache; the cache stays until clear_post_cache, which
\* empties it; a get_all_posts(use_cache=True) that finds a cache returns it
\* with no account_statuses request and leaves it as it is; with
\* use_cache=False, or with no cache, the call fetches from the server,
\* starting with a request without cursor, and its result replaces the cache.
C12_CacheProtocol ==
    /\ [][CacheStep]_vars
    /\ []((call.op = "get_all_posts" /\ outcome = "returned"
           /\ (~call.use_cache \/ requests # <<>>)) =>
             /\ requests # <<>>
             /\ requests[1].op = "account_statuses" /\ IsNone(requests[1].arg)
             /\ ret_posts = ConcatPages(requests)
             /\ cached_posts = Some(ret_posts))

\* A call with use_cache=True has returned a cached list of two posts or more
\* without a request.
C12_Witness ==
    /\ call.op = "get_all_posts" /\ call.use_cache /\ outcome = "returned"
    /\ requests = <<>>
    /\ Len(ret_posts) >= 2 /\ cached_posts = Some(ret_posts)

\* ------------------------------------------ properties of the version check
\* C15 (as claimed): whenever check_quote_policy_support or get_account_info
\* has returned on an object that holds the instance's information, the
\* version string of the returned pair is the version the instance reported.
C15_VersionAlwaysReported ==
    (/\ call.op \in {"check_quote_policy_support", "get_account_info"}
     /\ ~IsNone(instance_info)
     /\ ~IsNone(Get(instance_info).version)) =>
        ret_support.version = Get(Get(instance_info).version)

\* ---------------------------------------- properties of an interrupted fetch
\* A step of the pagination loop whose page request raises an exception.
ExceptionStep ==
    /\ pc = "fetching"
    /\ Len(requests') = Len(requests) + 1
    /\ ~Last(requests').ok

\* What a step does with a cache that an interrupted fetch has left.
PartialCacheStep ==
    /\ ExceptionStep =>
          /\ pc' # "fetching"
          /\ cache_origin' = "exception"
          /\ cached_posts' = Some(ConcatPages(requests))
    /\ (pc = "idle" /\ cache_origin = "exception"
            /\ call'.op = "get_all_posts" /\ call'.use_cache) =>
          /\ outcome' = "returned"
          /\ ret_posts' = Get(cached_posts)
          /\ requests' = <<>>
          /\ UNCHANGED <<cached_posts, cache_origin>>
    /\ (pc = "idle" /\ cache_origin = "exception"
            /\ call'.op = "enable_quotability_for_all_posts" /\ outcome' = "running") =>
          /\ pc' = "updating"
          /\ posts' = Get(cached_posts)
          /\ results'.total = Len(Get(cached_posts))
          /\ requests' = <<>>
          /\ UNCHANGED <<cached_posts, cache_origin>>

\* C17: a page request that raises ends the loop and stores the posts of the
\* pages fetched before it as the cache; while that cache is in place, a
\* get_all_posts(use_cache=True) returns it and a bulk update takes it as its
\* posts, both without an account_statuses request, and the total of the
\* bulk update is the length of that list.
C17_PartialListCached ==
    /\ [][PartialCacheStep]_vars
    /\ [](cache_origin = "exception" =>
            /\ ~IsNone(cached_posts)
            /\ (call.op = "get_all_posts" /\ call.use_cache /\ outcome = "returned") =>
                  ret_posts = Get(cached_posts)
            /\ (InBulk /\ (pc = "updating" \/ outcome = "returned")) =>
                  /\ posts = Get(cached_posts)
                  /\ results.total = Len(Get(cached_posts))
                  /\ \/ RequestsOf("account_statuses") = <<>>
                     \/ ~Last(RequestsOf("account_statuses")).ok)

\* A bulk update has returned that took its posts from a cache left by an
\* interrupted fetch, with a total below the account's post count.
C17_Witness ==
    /\ InBulk /\ outcome = "returned"
    /\ cache_origin = "exception"
    /\ RequestsOf("account_statuses") = <<>>
    /\ results.total >= 1
    /\ results.total < account.statuses_count
    /\ results.total = results.success + results.failed

\* ------------------------------------------- properties of the version check
\* The release part of a version string: what precedes the first + or -.
ReleasePart(v) == Split(Split(v, "+")[1], "-")[1]

IsNumber(s) == s # <<>> /\ \A k \in 1..Len(s) : s[k] \in Digits

\* A version string as instances report them: dot-separated numbers,
\* optionally followed by a + or - suffix.
WellFormedVersion(v) ==
    LET comps == Split(ReleasePart(v), ".")
    IN  \A k \in 1..Len(comps) : IsNumber(comps[k])

\* Version at least 4.5: major > 4, or major = 4 and minor >= 5, the minor of
\* a version of one component being 0.
AtLeast45(v) ==
    LET comps == Split(ReleasePart(v), ".")
        major == DigitsValue(comps[1])
        minor == IF Len(comps) >= 2 THEN DigitsValue(comps[2]) ELSE 0
    IN  major > 4 \/ (major = 4 /\ minor >= 5)

\* C8 (as claimed): when the instance has reported a version string,
\* check_quote_policy_support reports supported = true exactly when that
\* version is at least 4.5, single-component versions such as "5" included.
C8_SupportedIffAtLeast45 ==
    (/\ call.op = "check_quote_policy_support"
     /\ ~IsNone(instance_info)
     /\ ~IsNone(instanceVersion)
     /\ WellFormedVersion(Get(instanceVersion)))
        => (ret_support.supported <=> AtLeast45(Get(instanceVersion)))

\* ------------------------------------------- properties of the credential store
\* C4: right after clear_credentials on a manager neither of its files exists,
\* is_authenticated() is false and get_api_client() raises ValueError; a
\* manager's user token file comes into existence only by a successful
\* authenticate_with_code on a manager with that token file, made while the
\* client secret file exists; and a client secret file comes into existence
\* only by register_app (called directly or by get_auth_url).
C4_ClearedUntilReauth ==
    /\ [](lastAuth.op = "clear_credentials" =>
            LET m == MastodonAuthManager(lastAuth.url)
            IN  /\ m.client_cred_file \notin files
                /\ m.user_cred_file \notin files
                /\ ~is_authenticated(m, files)
                /\ GetApiClientOutcome(m, files) = "ValueError")
    /\ [](lastAuth.op = "get_api_client" =>
            (lastAuth.outcome = "ValueError"
                <=> ~is_authenticated(MastodonAuthManager(lastAuth.url), files)))
    /\ [][\A url \in Urls :
            LET m == MastodonAuthManager(url)
                by == MastodonAuthManager(lastAuth'.url)
            IN  /\ (~is_authenticated(m, files) /\ is_authenticated(m, files')) =>
                      /\ lastAuth'.op = "authenticate_with_code"
                      /\ lastAuth'.outcome = "returned"
                      /\ by.user_cred_file = m.user_cred_file
                      /\ by.client_cred_file \in files
                /\ (m.client_cred_file \notin files /\ m.client_cred_file \in files') =>
                      /\ lastAuth'.op \in {"register_app", "get_auth_url"}
                      /\ lastAuth'.outcome = "returned"
                      /\ by.client_cred_file = m.client_cred_file]_vars

\* clear_credentials has removed both files of an authenticated manager.
C4_Witness ==
    /\ lastAuth.op = "clear_credentials"
    /\ Cardinality(lastAuth.before) = 2
    /\ lastAuth.before \cap files = {}

\* C10 (as claimed): POST /api/auth/start with a non-empty instance_url and a
\* reachable instance answers 200 with a session id, and afterwards
\* auth_managers holds that session id and auth_states maps the issued state
\* token to it.
C10_StartAuthSucceeds ==
    (http.endpoint = "/api/auth/start" /\ http.instance_url # <<>> /\ http.reachable) =>
        /\ http.status = 200
        /\ http.session_id \in DOMAIN auth_managers
        /\ http.state \in DOMAIN auth_states
        /\ auth_states[http.state] = http.session_id

\* C13: a step that answers GET /api/auth/callback calls
\* authenticate_with_code only for a state that was in auth_states, any answer
\* other than the two 400s for a missing parameter or an unknown state is
\* for a state that was in auth_states, and after any answer but "missing
\* parameter" the state is not in auth_states, so that the same state is
\* answered 400 'Invalid or expired state token' from then on.
C13_StateTokenAtMostOnce ==
    /\ [][(http' # http /\ http'.endpoint = "GET /api/auth/callback") =>
            /\ http'.error \notin {"Missing code or state parameter",
                                   "Invalid or expired state token"} =>
                  http'.state \in DOMAIN auth_states
            /\ http'.error # "Missing code or state parameter" =>
                  http'.state \notin DOMAIN auth_states'
            /\ (http'.state \notin DOMAIN auth_states
                    /\ http'.error # "Missing code or state parameter") =>
                  /\ http'.status = 400
                  /\ http'.error = "Invalid or expired state token"
                  /\ UNCHANGED <<files, auth_managers, auth_states>>]_vars
    /\ [][DOMAIN auth_states' \ DOMAIN auth_states # {} =>
            http'.endpoint = "/api/auth/start"]_vars

\* The case of C13: a GET with a state that was in auth_states.
C13_Case ==
    /\ http.endpoint = "GET /api/auth/callback"
    /\ http.error \notin {"Missing code or state parameter", "Invalid or expired state token"}

\* The remote API was contacted for the last request of a session endpoint.
ContactedRemote == http.status = 200 \/ http.error = "remote"

\* C14 (as claimed): a session endpoint contacts the remote API only for a
\* session id in auth_managers whose manager is authenticated, and otherwise
\* answers 400 'Session ID is required', 400 'Invalid session ID' or
\* 401 'Not authenticated'.
C14_SessionEndpointsGuarded ==
    http.endpoint \in SessionEndpoints =>
        IF ContactedRemote
        THEN /\ http.session_id \in DOMAIN auth_managers
             /\ is_authenticated(auth_managers[http.session_id], files)
        ELSE \/ http.status = 400 /\ http.error = "Session ID is required"
             \/ http.status = 400 /\ http.error = "Invalid session ID"
                    /\ http.session_id \notin DOMAIN auth_managers
             \/ http.status = 401 /\ http.error = "Not authenticated"
                    /\ http.session_id \in DOMAIN auth_managers

\* C16: any two managers built for the same instance URL, whatever their
\* client names, give the same is_authenticated() in every state; right after
\* a successful authenticate_with_code on one of them it is true on all of
\* them, and right after clear_credentials on one of them it is false on all
\* of them, whatever calls were interleaved before.
C16_AuthStateSharedPerUrl ==
    /\ \A url \in Urls, n1 \in ClientNames, n2 \in ClientNames :
          is_authenticated(NewAuthManager(url, n1), files)
              = is_authenticated(NewAuthManager(url, n2), files)
    /\ (lastAuth.op = "authenticate_with_code" /\ lastAuth.outcome = "returned") =>
          \A n \in ClientNames : is_authenticated(NewAuthManager(lastAuth.url, n), files)
    /\ lastAuth.op = "clear_credentials" =>
          \A n \in ClientNames : ~is_authenticated(NewAuthManager(lastAuth.url, n), files)

\* clear_credentials on a manager has logged out the managers of its URL that
\* were authenticated, while a manager of another URL stays authenticated.
C16_Witness ==
    /\ lastAuth.op = "clear_credentials"
    /\ NewAuthManager(lastAuth.url, "Quotability Manager").user_cred_file \in lastAuth.before
    /\ \A n \in ClientNames : ~is_authenticated(NewAuthManager(lastAuth.url, n), files)
    /\ \E url \in Urls : is_authenticated(NewAuthManager(url, "Quotability Manager"), files)

\* --------------------------------------------- properties of the command line
\* C9 (as claimed): the info and enable commands exit with status 1 on every
\* cancellation and error: on KeyboardInterrupt, on an exception raised during
\* authentication or the command, and when the user declines at the
\* confirmation prompt of enable.
C9_ExitOneOnCancelOrError ==
    (/\ cliPc = "exited"
     /\ cliArgs.command \in {"info", "enable"}
     /\ cliEvent \in {"KeyboardInterrupt", "Exception", "declined"})
        => cliExit = 1

====
